---- MODULE Spec2Model ----
(***************************************************************************)
(* Model of IoTCClient (azure/iotcentral/device/client/__init__.py): the   *)
(* connection flag, the event registry, connect and the two listener       *)
(* loops _onProperties and _onCommands running as daemon threads against   *)
(* the hub device client.                                                  *)
(***************************************************************************)
EXTENDS Integers, Sequences, FiniteSets, TLC

\* ---------------------------------------------------------------- bounds
MaxThreads == 2      \* listener threads ever started (two per successful connect)
MaxReconnectThreads == 4  \* the same, where connect may succeed again
MaxMsgs == 1         \* messages (commands and patches) the hub delivers
MaxPatchLen == 3     \* entries of a patch, the "$version" entry included
MaxDerive == 2       \* times connect re-derives the symmetric key
MaxCommands == 2     \* commands the hub delivers where it delivers only commands

\* ------------------------------------------------------ program constants
IOTC_CONNECT_SYMM_KEY == 1
IOTC_CONNECT_X509_CERT == 2
IOTC_CONNECT_DEVICE_KEY == 3
IOTC_COMMAND == 2
IOTC_PROPERTIES == 4
IdleInterval == 10
AckStatus == 200

None == "None"
Handlers == {"h1", "h2"}
EventKeys == {IOTC_COMMAND, IOTC_PROPERTIES}
CredTypes == {IOTC_CONNECT_SYMM_KEY, IOTC_CONNECT_X509_CERT, IOTC_CONNECT_DEVICE_KEY}

\* ------------------------------------------------------------- messages
VersionKey == "$version"
PropNames == {"temp", "mode"}
PropValue(name) == IF name = "temp" THEN 21 ELSE 22

\* An entry of a patch: the "$version" entry maps to a number, a property
\* entry maps to a dict that carries a 'value' field or not.
VersionEntry == [name |-> VersionKey, hasValue |-> FALSE, value |-> 3]
GoodEntry(n) == [name |-> n, hasValue |-> TRUE, value |-> PropValue(n)]
BadEntry(n) == [name |-> n, hasValue |-> FALSE, value |-> 0]
PropEntries == {GoodEntry(n) : n \in PropNames} \cup {BadEntry("mode")}
Entries == {VersionEntry} \cup PropEntries

\* The patches the hub can deliver: ordered dicts with distinct keys, one
\* of which is "$version".
Patches ==
  {p \in UNION {[1..n -> Entries] : n \in 1..MaxPatchLen} :
     /\ Cardinality({i \in DOMAIN p : p[i].name = VersionKey}) = 1
     /\ \A i, j \in DOMAIN p : p[i].name = p[j].name => i = j}

NoMsg == <<>>

\* no provisioning client built yet, no send call made yet
NoReg == <<>>
NoSend == <<>>
CmdNames == {"reboot"}

\* patch['$version']
VersionOf(patch) ==
  LET i == CHOOSE i \in DOMAIN patch : patch[i].name = VersionKey
  IN patch[i].value

\* for prop in patch: if prop == '$version': continue
\* the index of the next entry after i that the loop body dispatches,
\* Len(patch)+1 when the for loop is over.
RECURSIVE NextProp(_, _)
NextProp(patch, i) ==
  IF i + 1 > Len(patch) THEN Len(patch) + 1
  ELSE IF patch[i + 1].name = VersionKey THEN NextProp(patch, i + 1)
  ELSE i + 1

\* the acknowledgment that reports the property's value as the version
AckPayloadWrongVersion(patch, e) ==
  [name |-> e.name, value |-> e.value, status |-> "completed",
   desiredVersion |-> e.value, message |-> "Property received"]

\* The payload _onProperties hands to sendProperty for entry e of patch.
AckPayload(patch, e) ==
  [name |-> e.name, value |-> e.value, status |-> "completed",
   desiredVersion |-> VersionOf(patch), message |-> "Property received"]

\* The payload _cmdAck hands to sendProperty.
CmdAckPayload(cmd) ==
  [name |-> cmd.name, value |-> "done", requestId |-> cmd.id]

\* MethodResponse.create_from_method_request(method_request, 200, {...})
MethodResponse(cmd) ==
  [requestId |-> cmd.id, status |-> AckStatus, body |-> "Command received"]

\* ---------------------------------------------------------------- state
VARIABLES
  connected,     \* self._connected
  events,        \* self._events
  credType,      \* self._credType
  keyORCert,     \* self._keyORCert
  deviceClient,  \* self._deviceClient: "unset", "closed" or "open"
  threads,       \* the listener threads started so far, in start order
  msgCount,      \* messages delivered by the receive primitives so far
  responses,     \* per command id, the method responses handed to the transport
  cmdCalls,      \* per command id, the number of invocations of the Command handler
  opened,        \* a hub session open has succeeded
  connectResult, \* how the most recent connect call ended (None before the first)
  deviceId,      \* self._deviceId
  scopeId,       \* self._scopeId
  given,         \* the arguments the constructor was called with
  modelId,       \* self._modelId
  globalEndpoint, \* self._globalEndpoint
  registration,  \* what the latest provisioning client was built from (NoReg before)
  firstReg,      \* the same for the first provisioning client ever built
  lastSend,      \* the latest sendTelemetry / sendProperty call and what it did
  cmdReturns     \* per command id, the Command handler invocations that ended

vars == <<connected, events, credType, keyORCert, deviceClient, threads,
          msgCount, responses, cmdCalls, opened, connectResult,
          deviceId, scopeId, given, modelId, globalEndpoint,
          registration, firstReg, lastSend, cmdReturns>>

\* the fields only the application thread's configuration and send calls touch
idVars == <<deviceId, scopeId, given>>
cfgVars == <<modelId, globalEndpoint>>
regVars == <<registration, firstReg>>

\* key material: the key given at construction, derived depth times
Key(valid, depth) == [valid |-> valid, depth |-> depth]
Cert == [valid |-> TRUE, depth |-> 0]

\* the ids the messages of a run can carry
MsgIds == 1..(IF MaxMsgs > MaxCommands THEN MaxMsgs ELSE MaxCommands)

\* __init__'s default for the provisioning host, and the other host and the
\* model id an application may set
DefaultEndpoint == "global.azure-devices-provisioning.net"
Endpoints == {DefaultEndpoint, "other.endpoint"}
ModelIds == {"model1"}

Init ==
  /\ connected = FALSE
  /\ events = [k \in EventKeys |-> None]
  /\ credType \in CredTypes
  /\ keyORCert \in IF credType = IOTC_CONNECT_SYMM_KEY
                   THEN {Key(TRUE, 0), Key(FALSE, 0)}
                   ELSE IF credType = IOTC_CONNECT_DEVICE_KEY
                   THEN {Key(TRUE, 0)}
                   ELSE {Cert}
  /\ deviceClient = "unset"
  /\ threads = <<>>
  /\ msgCount = 0
  /\ responses = [c \in MsgIds |-> <<>>]
  /\ cmdCalls = [c \in MsgIds |-> 0]
  /\ opened = FALSE
  /\ connectResult = None
  /\ deviceId = "device1"
  /\ scopeId = "scope1"
  /\ given = [deviceId |-> deviceId, scopeId |-> scopeId,
              credType |-> credType, keyORCert |-> keyORCert]
  /\ modelId = None
  /\ globalEndpoint = DefaultEndpoint
  /\ registration = NoReg
  /\ firstReg = NoReg
  /\ lastSend = NoSend
  /\ cmdReturns = [c \in MsgIds |-> 0]


\* ------------------------------------------------- the application thread
\* isConnected()
isConnected == IF connected THEN TRUE ELSE FALSE

\* a caller that waits for the properties thread to end
JoinedProp == {1}

\* lines 313-321: the listener threads connect waits for before it returns
\* (they are started with start(), none is joined)
Joined == {}

\* the application thread is not held inside connect
CallerFree ==
  \A t \in Joined \cap DOMAIN threads : threads[t].pc = "dead"

\* on(eventname, callback): self._events[eventname] = callback
On(k, h) ==
  /\ CallerFree
  /\ events' = [events EXCEPT ![k] = h]
  /\ UNCHANGED <<idVars, cfgVars, regVars, lastSend, cmdReturns>>
  /\ UNCHANGED <<connected, credType, keyORCert, deviceClient, threads,
                 msgCount, responses, cmdCalls, opened,
                 connectResult>>

\* _computeDerivedSymmetricKey(secret, regId): a broken base64 secret ends
\* in sys.exit(); otherwise the result is the base64 of an HMAC digest.
CanDerive(key) == key.valid
computeDerivedSymmetricKey(key) == Key(TRUE, key.depth + 1)

\* The outcomes of one connect call: the key derivation exits, register()
\* raises, the hub connect() raises, or everything succeeds.
ConnectOutcomes == {"exit", "provfail", "hubfail", "ok"}

\* self._keyORCert after lines 262-269
KeyAfterConnect(ct, key, out) ==
  IF ct = IOTC_CONNECT_SYMM_KEY /\ out # "exit"
  THEN computeDerivedSymmetricKey(key)
  ELSE key

\* the flag set before the hub client's connect() is tried
ConnectedSetEarly(old, out) == IF out \in {"ok", "hubfail"} THEN TRUE ELSE old

\* the flag following the outcome of the latest connect call
ConnectedOnlyWhileOk(old, out) == out = "ok"

\* self._connected after lines 304-311: set only after connect() of the hub
\* client returned.
ConnectedAfterConnect(old, out) == IF out = "ok" THEN TRUE ELSE old

\* self._deviceClient after lines 285-311: replaced as soon as register()
\* returned, opened when its connect() returned.
ClientAfterConnect(old, out) ==
  CASE out = "ok" -> "open"
    [] out = "hubfail" -> "closed"
    [] OTHER -> old

\* a thread object right after Thread.start(): at the top of its loop
NewThread(kind) ==
  [kind |-> kind, pc |-> "check", cb |-> None, msg |-> NoMsg, idx |-> 0,
   slept |-> 0, calls |-> <<>>, rets |-> <<>>, sent |-> <<>>, cause |-> None]

\* threads started although the hub client's connect() raised
ThreadsStartedAnyway(out) ==
  IF out \in {"ok", "hubfail"} THEN <<NewThread("prop"), NewThread("cmd")>>
  ELSE <<>>

\* lines 313-321: the threads a connect call starts
ThreadsStarted(out) ==
  IF out = "ok" THEN <<NewThread("prop"), NewThread("cmd")>> ELSE <<>>

\* lines 271-284: what the provisioning client of this call is created
\* from and registers with; none is created when the key derivation exits.
RegistrationOf(out, key) ==
  IF out = "exit" THEN NoReg
  ELSE [endpoint |-> globalEndpoint, modelId |-> modelId, key |-> key]

\* connect(), while at most cap listener threads are ever started
ConnectUpTo(out, cap) ==
  /\ CallerFree
  /\ out \in ConnectOutcomes
  /\ (out = "exit") <=> (credType = IOTC_CONNECT_SYMM_KEY /\ ~CanDerive(keyORCert))
  /\ credType = IOTC_CONNECT_SYMM_KEY /\ out # "exit" => keyORCert.depth < MaxDerive
  /\ Len(threads) + Len(ThreadsStarted(out)) <= cap
  /\ keyORCert' = KeyAfterConnect(credType, keyORCert, out)
  /\ deviceClient' = ClientAfterConnect(deviceClient, out)
  /\ connected' = ConnectedAfterConnect(connected, out)
  /\ opened' = (opened \/ out = "ok")
  /\ threads' = threads \o ThreadsStarted(out)
  /\ connectResult' = out
  /\ LET reg == RegistrationOf(out, keyORCert')
     IN /\ registration' = IF reg = NoReg THEN registration ELSE reg
        /\ firstReg' = IF firstReg = NoReg THEN reg ELSE firstReg
  /\ UNCHANGED <<idVars, cfgVars, lastSend, cmdReturns>>
  /\ UNCHANGED <<events, credType, msgCount, responses, cmdCalls>>

Connect(out) == ConnectUpTo(out, MaxThreads)

\* connect() where a second call may succeed
Reconnect(out) == ConnectUpTo(out, MaxReconnectThreads)

\* setModelId(modelId): self._modelId = modelId
SetModelId(m) ==
  /\ CallerFree
  /\ modelId' = m
  /\ UNCHANGED <<idVars, globalEndpoint, regVars, lastSend, cmdReturns>>
  /\ UNCHANGED <<connected, events, credType, keyORCert, deviceClient, threads,
                 msgCount, responses, cmdCalls, opened, connectResult>>

\* setGlobalEndpoint(endpoint): self._globalEndpoint = endpoint
SetGlobalEndpoint(e) ==
  /\ CallerFree
  /\ globalEndpoint' = e
  /\ UNCHANGED <<idVars, modelId, regVars, lastSend, cmdReturns>>
  /\ UNCHANGED <<connected, events, credType, keyORCert, deviceClient, threads,
                 msgCount, responses, cmdCalls, opened, connectResult>>

\* the send primitives of the hub client
SEND_MESSAGE == "send_message"
PATCH_REPORTED == "patch_twin_reported_properties"

\* self._deviceClient.<primitive>(...): the attribute does not exist until a
\* connect call got past register() (AttributeError); on a client object
\* the primitive returns or raises.
SendOutcomes(client) ==
  IF client = "unset" THEN {"noclient"} ELSE {"ok", "sendfail"}

\* the callback invoked before the payload is handed over
SendTraceCallbackFirst(prim, hasCb, out) ==
  CASE out = "noclient" -> <<"raise">>
    [] out = "sendfail" -> IF hasCb THEN <<"callback", prim, "raise">>
                           ELSE <<prim, "raise">>
    [] OTHER -> IF hasCb THEN <<"callback", prim>> ELSE <<prim>>

\* What one send call does on the caller's thread, in order (lines 226-245):
\* the primitive is called, then "if callback is not None: callback()"; an
\* exception leaves the method at the statement that raised it.
SendTrace(prim, hasCb, out) ==
  CASE out = "noclient" -> <<"raise">>
    [] out = "sendfail" -> <<prim, "raise">>
    [] OTHER -> IF hasCb THEN <<prim, "callback">> ELSE <<prim>>

\* one call of a send method, with or without a callback
Send(op, prim, hasCb, out) ==
  /\ CallerFree
  /\ out \in SendOutcomes(deviceClient)
  /\ lastSend' = [op |-> op, hasCb |-> hasCb,
                  trace |-> SendTrace(prim, hasCb, out)]
  /\ UNCHANGED <<idVars, cfgVars, regVars, cmdReturns>>
  /\ UNCHANGED <<connected, events, credType, keyORCert, deviceClient, threads,
                 msgCount, responses, cmdCalls, opened, connectResult>>

\* sendTelemetry(payload, properties, callback) -> _sendMessage
SendTelemetry(hasCb, out) == Send("sendTelemetry", SEND_MESSAGE, hasCb, out)

\* sendProperty(payload, callback)
SendProperty(hasCb, out) == Send("sendProperty", PATCH_REPORTED, hasCb, out)

SendResults == {"noclient", "sendfail", "ok"}

\* ----------------------------------------------------- the listener loops
EventKey(kind) == IF kind = "prop" THEN IOTC_PROPERTIES ELSE IOTC_COMMAND

Set(t, rec) == threads' = [threads EXCEPT ![t] = rec]

Die(th, why) == [th EXCEPT !.pc = "dead", !.cause = why]

\* try: cb = self._events[key] / except KeyError: time.sleep(10); continue
\* (a key is in the dict once on has stored it)
Registered(k) == events[k] # None

AfterLookup(found) == IF found THEN "receive" ELSE "sleep"

Check(t) ==
  /\ threads[t].pc = "check"
  /\ LET k == EventKey(threads[t].kind)
         found == Registered(k)
     IN Set(t, [threads[t] EXCEPT !.pc = AfterLookup(found),
                                  !.cb = IF found THEN events[k] ELSE @,
                                  !.slept = 0, !.msg = NoMsg, !.idx = 0,
                                  !.calls = <<>>, !.rets = <<>>,
                                  !.sent = <<>>])
  /\ UNCHANGED <<idVars, cfgVars, regVars, lastSend, cmdReturns>>
  /\ UNCHANGED <<connected, events, credType, keyORCert, deviceClient,
                 msgCount, responses, cmdCalls, opened, connectResult>>

\* a sleep of one time unit
SleepOverEarly(slept) == slept >= 1

\* time.sleep(10) returns once ten time units have passed
SleepOver(slept) == slept >= IdleInterval

\* the registry read once, before the loop: after the sleep, sleep again
AfterSleepNoReread == "sleep"

\* continue: back to the top of the while loop, where the registry is read
AfterSleep == "check"

Wake(t) ==
  /\ threads[t].pc = "sleep"
  /\ SleepOver(threads[t].slept)
  /\ Set(t, [threads[t] EXCEPT !.pc = AfterSleep])
  /\ UNCHANGED <<idVars, cfgVars, regVars, lastSend, cmdReturns>>
  /\ UNCHANGED <<connected, events, credType, keyORCert, deviceClient,
                 msgCount, responses, cmdCalls, opened, connectResult>>

\* one time unit passes for every sleeping thread
Tick ==
  /\ \E t \in DOMAIN threads :
       threads[t].pc = "sleep" /\ threads[t].slept < IdleInterval
  /\ threads' = [t \in DOMAIN threads |->
                   IF threads[t].pc = "sleep" /\ threads[t].slept < IdleInterval
                   THEN [threads[t] EXCEPT !.slept = @ + 1]
                   ELSE threads[t]]
  /\ UNCHANGED <<idVars, cfgVars, regVars, lastSend, cmdReturns>>
  /\ UNCHANGED <<connected, events, credType, keyORCert, deviceClient,
                 msgCount, responses, cmdCalls, opened, connectResult>>

\* the session's end taking every listener thread down
ReceiveFailsForAll(t) ==
  /\ threads[t].pc = "receive"
  /\ threads' = [u \in DOMAIN threads |-> Die(threads[u], "receive")]
  /\ UNCHANGED <<idVars, cfgVars, regVars, lastSend, cmdReturns>>
  /\ UNCHANGED <<connected, events, credType, keyORCert, deviceClient,
                 msgCount, responses, cmdCalls, opened, connectResult>>

\* The receive primitive raises (the session terminated): nothing in the
\* loop catches it, the thread ends.
ReceiveFails(t) ==
  /\ threads[t].pc = "receive"
  /\ Set(t, Die(threads[t], "receive"))
  /\ UNCHANGED <<idVars, cfgVars, regVars, lastSend, cmdReturns>>
  /\ UNCHANGED <<connected, events, credType, keyORCert, deviceClient,
                 msgCount, responses, cmdCalls, opened, connectResult>>

\* where the for loop over a patch stands at index i
ForPc(patch, i) == IF i > Len(patch) THEN "check" ELSE "dispatch"

\* patch = self._deviceClient.receive_twin_desired_properties_patch()
ReceivePatch(t, patch) ==
  /\ threads[t].kind = "prop"
  /\ threads[t].pc = "receive"
  /\ msgCount < MaxMsgs
  /\ msgCount' = msgCount + 1
  /\ LET i == NextProp(patch, 0)
     IN Set(t, [threads[t] EXCEPT !.msg = patch, !.idx = i,
                                  !.pc = ForPc(patch, i),
                                  !.calls = <<>>, !.rets = <<>>,
                                  !.sent = <<>>])
  /\ UNCHANGED <<idVars, cfgVars, regVars, lastSend, cmdReturns>>
  /\ UNCHANGED <<connected, events, credType, keyORCert, deviceClient,
                 responses, cmdCalls, opened, connectResult>>

\* ret = propCb(prop, patch[prop]['value']): the argument is evaluated
\* first and raises KeyError when the property carries no 'value'.
DispatchProp(t) ==
  /\ threads[t].kind = "prop"
  /\ threads[t].pc = "dispatch"
  /\ LET th == threads[t]
         e == th.msg[th.idx]
     IN IF e.hasValue
        THEN Set(t, [th EXCEPT !.pc = "handler",
                               !.calls = Append(@, <<e.name, e.value>>)])
        ELSE Set(t, Die(th, "malformed"))
  /\ UNCHANGED <<idVars, cfgVars, regVars, lastSend, cmdReturns>>
  /\ UNCHANGED <<connected, events, credType, keyORCert, deviceClient,
                 msgCount, responses, cmdCalls, opened, connectResult>>

\* the loop moves on to the next entry of the patch
Advance(th) ==
  LET i == NextProp(th.msg, th.idx)
  IN [th EXCEPT !.idx = i, !.pc = ForPc(th.msg, i)]

\* what the handler's return value is recorded as
RetName(ret) == IF ret THEN "ok" ELSE "failed"

\* the acknowledgment sent whatever the handler returned
AfterPropHandlerAlwaysAck(th, ret) ==
  [th EXCEPT !.rets = Append(@, RetName(ret)), !.pc = "sendack"]

\* if ret: self.sendProperty(...) else: debug log
AfterPropHandler(th, ret) ==
  LET back == [th EXCEPT !.rets = Append(@, RetName(ret))]
  IN IF ret THEN [back EXCEPT !.pc = "sendack"] ELSE Advance(back)

\* the Properties handler returns ret, or raises
PropHandlerReturns(t, ret) ==
  /\ threads[t].kind = "prop"
  /\ threads[t].pc = "handler"
  /\ Set(t, AfterPropHandler(threads[t], ret))
  /\ UNCHANGED <<idVars, cfgVars, regVars, lastSend, cmdReturns>>
  /\ UNCHANGED <<connected, events, credType, keyORCert, deviceClient,
                 msgCount, responses, cmdCalls, opened, connectResult>>

\* a handler invocation that ends: counted for a command
Ended(th) ==
  IF th.kind = "cmd" THEN [cmdReturns EXCEPT ![th.msg.id] = @ + 1]
  ELSE cmdReturns

HandlerRaises(t) ==
  /\ threads[t].pc = "handler"
  /\ Set(t, Die([threads[t] EXCEPT !.rets = Append(@, "raise")], "handler"))
  /\ cmdReturns' = Ended(threads[t])
  /\ UNCHANGED <<idVars, cfgVars, regVars, lastSend>>
  /\ UNCHANGED <<connected, events, credType, keyORCert, deviceClient,
                 msgCount, responses, cmdCalls, opened, connectResult>>

\* self.sendProperty({prop: {value, status, desiredVersion, message}}):
\* patch_twin_reported_properties returns, or raises and ends the thread.
SendPropAck(t, ok) ==
  /\ threads[t].kind = "prop"
  /\ threads[t].pc = "sendack"
  /\ LET th == threads[t]
         said == [th EXCEPT !.sent = Append(@, AckPayload(th.msg, th.msg[th.idx]))]
     IN Set(t, IF ok THEN Advance(said) ELSE Die(said, "send"))
  /\ UNCHANGED <<idVars, cfgVars, regVars, lastSend, cmdReturns>>
  /\ UNCHANGED <<connected, events, credType, keyORCert, deviceClient,
                 msgCount, responses, cmdCalls, opened, connectResult>>

\* the handler called without the acknowledgment having been sent
CmdAfterReceiveNoAck == "dispatch"

\* what _onCommands does with a method request it received, in order
CmdAfterReceive == "ack"
CmdAfterAck == "dispatch"

\* method_request = self._deviceClient.receive_method_request()
ReceiveCommandUpTo(t, name, cap) ==
  /\ threads[t].kind = "cmd"
  /\ threads[t].pc = "receive"
  /\ msgCount < cap
  /\ msgCount' = msgCount + 1
  /\ Set(t, [threads[t] EXCEPT !.msg = [id |-> msgCount + 1, name |-> name],
                               !.pc = CmdAfterReceive,
                               !.calls = <<>>, !.rets = <<>>,
                               !.sent = <<>>])
  /\ UNCHANGED <<idVars, cfgVars, regVars, lastSend, cmdReturns>>
  /\ UNCHANGED <<connected, events, credType, keyORCert, deviceClient,
                 responses, cmdCalls, opened, connectResult>>

ReceiveCommand(t, name) == ReceiveCommandUpTo(t, name, MaxMsgs)

\* the hub sends up to MaxCommands commands, one after the other
ReceiveCommands(t, name) == ReceiveCommandUpTo(t, name, MaxCommands)

\* self._deviceClient.send_method_response(MethodResponse.create_from_method_request(
\*     method_request, 200, {...})): returns, or raises and ends the thread.
AckCommand(t, ok) ==
  /\ threads[t].kind = "cmd"
  /\ threads[t].pc = "ack"
  /\ LET th == threads[t]
     IN /\ responses' = [responses EXCEPT
                           ![th.msg.id] = Append(@, MethodResponse(th.msg))]
        /\ Set(t, IF ok THEN [th EXCEPT !.pc = CmdAfterAck] ELSE Die(th, "ack"))
  /\ UNCHANGED <<idVars, cfgVars, regVars, lastSend, cmdReturns>>
  /\ UNCHANGED <<connected, events, credType, keyORCert, deviceClient,
                 msgCount, cmdCalls, opened, connectResult>>

\* the handler left running while the loop goes back to its top
CmdAfterDispatchNoWait == "check"

\* line 223: the loop calls the handler itself and goes on when it returns
CmdAfterDispatch == "handler"

\* cmdCb(method_request, self._cmdAck)
DispatchCommand(t) ==
  /\ threads[t].kind = "cmd"
  /\ threads[t].pc = "dispatch"
  /\ LET th == threads[t]
     IN /\ cmdCalls' = [cmdCalls EXCEPT ![th.msg.id] = @ + 1]
        /\ Set(t, [th EXCEPT !.pc = CmdAfterDispatch,
                             !.calls = Append(@, <<th.msg.name, th.msg.id>>)])
  /\ UNCHANGED <<idVars, cfgVars, regVars, lastSend, cmdReturns>>
  /\ UNCHANGED <<connected, events, credType, keyORCert, deviceClient,
                 msgCount, responses, opened, connectResult>>

\* the Command handler calls the acknowledgment callback it was given:
\* _cmdAck(name, value, requestId) -> sendProperty
CmdHandlerAcks(t, ok) ==
  /\ threads[t].kind = "cmd"
  /\ threads[t].pc = "handler"
  /\ threads[t].sent = <<>>
  /\ LET th == threads[t]
         said == [th EXCEPT !.sent = Append(@, CmdAckPayload(th.msg))]
     IN Set(t, IF ok THEN said ELSE Die(said, "handler"))
  /\ UNCHANGED <<idVars, cfgVars, regVars, lastSend, cmdReturns>>
  /\ UNCHANGED <<connected, events, credType, keyORCert, deviceClient,
                 msgCount, responses, cmdCalls, opened, connectResult>>

\* the Command handler returns: back to the top of the while loop
CmdHandlerReturns(t) ==
  /\ threads[t].kind = "cmd"
  /\ threads[t].pc = "handler"
  /\ Set(t, [threads[t] EXCEPT !.pc = "check"])
  /\ cmdReturns' = Ended(threads[t])
  /\ UNCHANGED <<idVars, cfgVars, regVars, lastSend>>
  /\ UNCHANGED <<connected, events, credType, keyORCert, deviceClient,
                 msgCount, responses, cmdCalls, opened, connectResult>>

Next ==
  \/ \E k \in EventKeys, h \in Handlers : On(k, h)
  \/ \E out \in ConnectOutcomes : Connect(out)
  \/ Tick
  \/ \E t \in DOMAIN threads : Check(t)
  \/ \E t \in DOMAIN threads : Wake(t)
  \/ \E t \in DOMAIN threads : ReceiveFails(t)
  \/ \E t \in DOMAIN threads, patch \in Patches : ReceivePatch(t, patch)
  \/ \E t \in DOMAIN threads : DispatchProp(t)
  \/ \E t \in DOMAIN threads, ret \in BOOLEAN : PropHandlerReturns(t, ret)
  \/ \E t \in DOMAIN threads : HandlerRaises(t)
  \/ \E t \in DOMAIN threads, ok \in BOOLEAN : SendPropAck(t, ok)
  \/ \E t \in DOMAIN threads, name \in CmdNames : ReceiveCommand(t, name)
  \/ \E t \in DOMAIN threads, ok \in BOOLEAN : AckCommand(t, ok)
  \/ \E t \in DOMAIN threads : DispatchCommand(t)
  \/ \E t \in DOMAIN threads, ok \in BOOLEAN : CmdHandlerAcks(t, ok)
  \/ \E t \in DOMAIN threads : CmdHandlerReturns(t)

Spec == Init /\ [][Next]_vars

\* The steps a listener thread takes on its own while it waits for a
\* handler: the threads are scheduled fairly and time passes.
Poll(t) == t \in DOMAIN threads /\ (Check(t) \/ Wake(t))

FairSpec ==
  /\ Spec
  /\ WF_vars(Tick)
  /\ \A t \in 1..MaxThreads : WF_vars(Poll(t))

\* The client of an application that registers no handler (the listeners
\* idle), connect free to succeed more than once.
NextReconnect ==
  \/ \E out \in ConnectOutcomes : Reconnect(out)
  \/ Tick
  \/ \E t \in DOMAIN threads : Check(t)
  \/ \E t \in DOMAIN threads : Wake(t)

ReconnectSpec == Init /\ [][NextReconnect]_vars

\* The application thread alone: it configures the client and connects.
NextConfig ==
  \/ \E m \in ModelIds : SetModelId(m)
  \/ \E e \in Endpoints : SetGlobalEndpoint(e)
  \/ \E out \in ConnectOutcomes : Connect(out)

ConfigSpec == Init /\ [][NextConfig]_vars

\* The application registers handlers, connects and sends, against a hub
\* that delivers nothing: a listener can only look its handler up and have
\* its receive fail.
NextSend ==
  \/ \E k \in EventKeys, h \in Handlers : On(k, h)
  \/ \E out \in ConnectOutcomes : Connect(out)
  \/ \E hasCb \in BOOLEAN, out \in SendResults : SendTelemetry(hasCb, out)
  \/ \E hasCb \in BOOLEAN, out \in SendResults : SendProperty(hasCb, out)
  \/ Tick
  \/ \E t \in DOMAIN threads : Check(t)
  \/ \E t \in DOMAIN threads : Wake(t)
  \/ \E t \in DOMAIN threads : ReceiveFails(t)

SendSpec == Init /\ [][NextSend]_vars

\* The hub delivers commands only, up to MaxCommands of them.
NextCommands ==
  \/ \E k \in EventKeys, h \in Handlers : On(k, h)
  \/ \E out \in ConnectOutcomes : Connect(out)
  \/ Tick
  \/ \E t \in DOMAIN threads : Check(t)
  \/ \E t \in DOMAIN threads : Wake(t)
  \/ \E t \in DOMAIN threads : ReceiveFails(t)
  \/ \E t \in DOMAIN threads, name \in CmdNames : ReceiveCommands(t, name)
  \/ \E t \in DOMAIN threads, ok \in BOOLEAN : AckCommand(t, ok)
  \/ \E t \in DOMAIN threads : DispatchCommand(t)
  \/ \E t \in DOMAIN threads, ok \in BOOLEAN : CmdHandlerAcks(t, ok)
  \/ \E t \in DOMAIN threads : CmdHandlerReturns(t)
  \/ \E t \in DOMAIN threads : HandlerRaises(t)

CommandSpec == Init /\ [][NextCommands]_vars


\* ------------------------------------------------------------ properties
Threads == DOMAIN threads
CmdThreads == {t \in Threads : threads[t].kind = "cmd"}
PropThreads == {t \in Threads : threads[t].kind = "prop"}
Holds(t) == threads[t].msg # NoMsg

\* C1: every command a Command Listener received has exactly one method
\* response handed to the transport, with status 200, as soon as the loop
\* is past its acknowledging step, and the Command handler is invoked for a
\* command only after that response: whatever the handler does, a command
\* never has a handler invocation without its one response, nor two
\* responses.
C1_AckOnceBeforeHandler ==
  /\ \A c \in 1..MaxMsgs :
       /\ Len(responses[c]) <= 1
       /\ \A i \in DOMAIN responses[c] :
            responses[c][i].status = 200 /\ responses[c][i].requestId = c
       /\ cmdCalls[c] > 0 => Len(responses[c]) = 1
  /\ \A t \in CmdThreads :
       Holds(t) =>
         Len(responses[threads[t].msg.id]) = IF threads[t].pc = "ack" THEN 0 ELSE 1

\* a command was acknowledged once and its handler then failed
C1_Witness ==
  \E t \in CmdThreads :
    /\ threads[t].pc = "dead" /\ threads[t].cause = "handler"
    /\ cmdCalls[threads[t].msg.id] = 1
    /\ Len(responses[threads[t].msg.id]) = 1

\* C2: a listener loop never invokes a handler that on has replaced in the
\* registry: the handler a loop invokes is the one registered for its event
\* kind at the time of the invocation.
C2_ReplacedNeverInvoked ==
  [][\A t \in Threads :
       (threads[t].pc # "handler" /\ threads'[t].pc = "handler")
         => threads[t].cb = events[EventKey(threads[t].kind)]]_vars

\* C3: isConnected() is false until a hub session open has succeeded, it is
\* true once connect has returned successfully, and a connect that failed
\* in register() or in the hub open has not set it.
C3_ConnectedOnlyAfterOpen ==
  /\ isConnected => opened
  /\ connectResult = "ok" => isConnected
  /\ (connectResult \in {"exit", "provfail", "hubfail"} /\ ~opened) => ~isConnected

\* register() succeeded, the hub open failed, the flag is still false
C3_Witness ==
  /\ connectResult = "hubfail"
  /\ deviceClient = "closed"
  /\ ~isConnected

\* C4: a listener loop ends only when its receive primitive fails: a handler
\* that raises or a property without a value does not end it.
C4_OnlyReceiveEndsLoop ==
  \A t \in Threads :
    threads[t].pc = "dead" => threads[t].cause \notin {"handler", "malformed"}

IsPrefix(a, b) == Len(a) <= Len(b) /\ \A i \in 1..Len(a) : a[i] = b[i]

\* the properties of a patch that carry a value, in the patch's order
Valued(patch) == SelectSeq(patch, LAMBDA e : e.name # VersionKey /\ e.hasValue)
ExpectedCalls(patch) ==
  [i \in 1..Len(Valued(patch)) |-> <<Valued(patch)[i].name, Valued(patch)[i].value>>]

\* C5: for every patch a Property Listener received, the Properties handler
\* is invoked once for each property of the patch, in order, with the
\* property's name and value, and never for "$version": while the patch is
\* processed the invocations are a prefix of that list, and once the loop is
\* through with the patch they are the whole list.
C5_EachPropertyOnce ==
  \A t \in PropThreads :
    Holds(t) =>
      /\ IsPrefix(threads[t].calls, ExpectedCalls(threads[t].msg))
      /\ threads[t].pc \in {"check", "dead"}
           => threads[t].calls = ExpectedCalls(threads[t].msg)

\* the same, as far as the code goes: the invocations are always a prefix of
\* that list, and the whole list when the for loop ran to its end
C5_PrefixOnly ==
  \A t \in PropThreads :
    Holds(t) =>
      /\ IsPrefix(threads[t].calls, ExpectedCalls(threads[t].msg))
      /\ threads[t].pc = "check"
           => threads[t].calls = ExpectedCalls(threads[t].msg)

ValueIn(patch, name) ==
  LET i == CHOOSE i \in DOMAIN patch : patch[i].name = name
  IN patch[i].value

\* the acknowledgments due for the first n invocations of thread record th
RECURSIVE AcksDue(_, _)
AcksDue(th, n) ==
  IF n = 0 THEN <<>>
  ELSE IF th.rets[n] = "ok"
  THEN Append(AcksDue(th, n - 1),
              [name |-> th.calls[n][1],
               value |-> ValueIn(th.msg, th.calls[n][1]),
               status |-> "completed",
               desiredVersion |-> ValueIn(th.msg, VersionKey),
               message |-> "Property received"])
  ELSE AcksDue(th, n - 1)

\* C6: the property updates a Property Listener has sent for its patch are,
\* in order, one per invocation for which the handler reported success, each
\* {p: {value: the patch's value for p, status: "completed", desiredVersion:
\* the patch's version, message: "Property received"}}; only the update for
\* the invocation that has just returned may still be outstanding, so each
\* is sent before the next property is dispatched.
C6_AckPerSuccess ==
  \A t \in PropThreads :
    Holds(t) =>
      LET th == threads[t]
          due == AcksDue(th, Len(th.rets))
      IN th.sent = IF th.pc = "sendack" THEN SubSeq(due, 1, Len(due) - 1) ELSE due

\* the first property was acknowledged and the second is in its handler
C6_Witness ==
  \E t \in PropThreads :
    /\ threads[t].pc = "handler"
    /\ Len(threads[t].calls) = 2
    /\ threads[t].rets = <<"ok">>
    /\ Len(threads[t].sent) = 1

\* C7: the step in which the Properties handler reports failure sends no
\* property update, changes nothing the application thread sees and leaves
\* the loop running, at the next property of the patch or, after the last,
\* at the top of the loop for the next patch.
C7_FailureNotAcked ==
  [][\A t \in PropThreads :
       (/\ Len(threads'[t].rets) = Len(threads[t].rets) + 1
        /\ threads'[t].rets[Len(threads'[t].rets)] = "failed")
       => /\ threads'[t].sent = threads[t].sent
          /\ threads'[t].idx = NextProp(threads[t].msg, threads[t].idx)
          /\ threads'[t].pc =
               IF threads'[t].idx > Len(threads[t].msg) THEN "check" ELSE "dispatch"
          /\ UNCHANGED <<connected, connectResult, deviceClient, events>>]_vars

\* the handler failed for the first property, nothing was sent, and the
\* second property is in its handler
C7_Witness ==
  \E t \in PropThreads :
    /\ threads[t].pc = "handler"
    /\ Len(threads[t].calls) = 2
    /\ threads[t].rets = <<"failed">>
    /\ threads[t].sent = <<>>

\* C8: a listener loop enters its blocking receive only from a registry
\* read that found a handler; a read that finds none leads to the idle wait
\* and not to receive; and the loop leaves the idle wait only after the
\* full interval of 10 time units, to read the registry again.
C8_IdleWait ==
  [][\A t \in Threads :
       LET k == EventKey(threads[t].kind)
       IN /\ (threads[t].pc # "receive" /\ threads'[t].pc = "receive")
               => (threads[t].pc = "check" /\ events[k] # None)
          /\ (threads[t].pc = "check" /\ events[k] = None)
               => threads'[t].pc \in {"check", "sleep"}
          /\ (threads[t].pc = "sleep" /\ threads'[t].pc # "sleep")
               => (threads[t].slept = 10 /\ threads'[t].pc = "check")]_vars

\* a loop that found no handler has waited the full interval and is back at
\* the registry read
C8_Witness ==
  \E t \in Threads :
    /\ threads[t].pc = "check"
    /\ threads[t].slept = 10
    /\ events[EventKey(threads[t].kind)] = None

C10_NoneOrTwoListeners ==
  credType = IOTC_CONNECT_DEVICE_KEY =>
    /\ ~opened => Len(threads) = 0
    /\ opened => /\ Len(threads) = 2
                 /\ Cardinality(PropThreads) = 1
                 /\ Cardinality(CmdThreads) = 1

\* a step of a connect call whose effect is visible
ConnectStep ==
  <<connectResult, keyORCert, deviceClient, registration>>' #
    <<connectResult, keyORCert, deviceClient, registration>>

\* C11: a connect call that fails (the key derivation exits, registration
\* raises, or the hub session open raises) ends there: it starts no
\* listener thread and leaves the connection flag as it was; when it fails
\* before or in registration it does not touch the hub client either, so no
\* hub session is opened by that call.
C11_FailedConnectAborts ==
  [][(ConnectStep /\ connectResult' \in {"exit", "provfail", "hubfail"})
       => /\ threads' = threads
          /\ connected' = connected
          /\ opened' = opened
          /\ connectResult' # "hubfail" => deviceClient' = deviceClient]_vars

\* registration was attempted and failed: no hub client, no listener
C11_Witness ==
  /\ connectResult = "provfail"
  /\ registration # NoReg
  /\ deviceClient = "unset"
  /\ threads = <<>>

\* C12: the endpoint and the model id every registration attempt uses are
\* the ones that were in force at the first connect: a setter called after
\* connect has been called has no effect on a later registration attempt.
C12_ConfigFrozenAtFirstConnect ==
  registration # NoReg =>
    /\ registration.endpoint = firstReg.endpoint
    /\ registration.modelId = firstReg.modelId

\* the primitive a send method hands its payload to
PrimitiveOf(op) == IF op = "sendTelemetry" THEN SEND_MESSAGE ELSE PATCH_REPORTED

Occurrences(tr, x) == Cardinality({i \in DOMAIN tr : tr[i] = x})

\* a step of a send call whose effect is visible
SendStep == lastSend' # lastSend

\* C13: a send call made on a client that has a hub client hands its
\* payload to the send primitive exactly once; given a callback, it invokes
\* the callback exactly once, after the primitive returned, and when the
\* primitive raises the callback is not invoked and the call raises;
\* without a callback the one send is all that happens.
C13_CallbackAfterSend ==
  [][(SendStep /\ deviceClient # "unset") =>
       LET call == lastSend'
           tr == call.trace
           prim == PrimitiveOf(call.op)
       IN /\ tr[1] = prim /\ Occurrences(tr, prim) = 1
          /\ Occurrences(tr, "callback") =
               IF call.hasCb /\ Occurrences(tr, "raise") = 0 THEN 1 ELSE 0
          /\ Occurrences(tr, "callback") = 1 => tr = <<prim, "callback">>
          /\ Occurrences(tr, "raise") = 1 => tr = <<prim, "raise">>
          /\ ~call.hasCb /\ Occurrences(tr, "raise") = 0 => tr = <<prim>>]_vars

\* a send with a callback whose primitive raised, on a connected client
C13_Witness ==
  /\ lastSend # NoSend
  /\ connected
  /\ lastSend.hasCb
  /\ lastSend.trace = <<PrimitiveOf(lastSend.op), "raise">>

\* C14: once a connect has succeeded, the application thread's operations
\* are enabled in every state, whatever the listener threads are doing (in
\* a handler, blocked in receive, asleep or ended): on for every kind and
\* handler, isConnected, sendTelemetry and sendProperty with or without a
\* callback; and a successful connect returns with its two listeners at the
\* top of their loops, no message received on the way.
C14_CallerNeverBlocked ==
  /\ [](connected =>
          /\ isConnected
          /\ \A k \in EventKeys, h \in Handlers : ENABLED On(k, h)
          /\ \A hasCb \in BOOLEAN :
               /\ ENABLED (\E out \in SendResults : SendTelemetry(hasCb, out))
               /\ ENABLED (\E out \in SendResults : SendProperty(hasCb, out)))
  /\ [][(ConnectStep /\ connectResult' = "ok")
          => /\ msgCount' = msgCount
             /\ \A t \in DOMAIN threads' \ DOMAIN threads :
                  threads'[t].pc = "check"]_vars

\* one listener runs a handler while the other is blocked in receive
C14_Witness ==
  /\ connected
  /\ \E t, u \in Threads :
       threads[t].pc = "handler" /\ threads[u].pc = "receive"

\* C15: when the receive of a listener fails, that thread ends with the
\* receive failure as its cause and every other thread, the registry, the
\* connection flag, the hub client and the result of the last connect are
\* left as they were; a thread that has ended never changes again.
C15_OnlyThatLoopStops ==
  [][\A t \in Threads :
       /\ (threads[t].pc = "receive" /\ threads'[t].pc = "dead")
            => /\ threads'[t].cause = "receive"
               /\ DOMAIN threads' = DOMAIN threads
               /\ \A u \in Threads \ {t} : threads'[u] = threads[u]
               /\ UNCHANGED <<events, connected, deviceClient, opened,
                              connectResult>>
       /\ threads[t].pc = "dead" => threads'[t] = threads[t]]_vars

\* a listener's receive has failed and the other listener runs a handler
C15_Witness ==
  /\ connected
  /\ \E t, u \in Threads :
       /\ threads[t].pc = "dead" /\ threads[t].cause = "receive"
       /\ threads[u].pc = "handler"

\* C16: deviceId, scopeId, the credential kind and the credential material
\* hold the values the constructor was given.
C16_IdentityImmutable ==
  /\ deviceId = given.deviceId
  /\ scopeId = given.scopeId
  /\ credType = given.credType
  /\ keyORCert = given.keyORCert

\* C17: the key every provisioning client is built with (the same one goes
\* into the hub connection string) is the key given at construction derived
\* exactly once for a symmetric group key, and the key given at construction
\* itself otherwise.
C17_KeyDerivedOnce ==
  registration # NoReg =>
    registration.key = IF given.credType = IOTC_CONNECT_SYMM_KEY
                       THEN computeDerivedSymmetricKey(given.keyORCert)
                       ELSE given.keyORCert

\* C18: the Command Listener handles its commands one after the other: a
\* command is received only when the handler invocation of every earlier
\* command has ended, each command's handler is invoked at most once, and
\* at most one invocation is running.
C18_CommandsSequential ==
  /\ \A c \in MsgIds :
       /\ cmdReturns[c] <= cmdCalls[c] /\ cmdCalls[c] <= 1
       /\ c <= msgCount =>
            \A b \in 1..(c - 1) : cmdCalls[b] = 1 /\ cmdReturns[b] = 1
  /\ Cardinality({c \in MsgIds : cmdCalls[c] > cmdReturns[c]}) <= 1

\* the handler runs for a second command, the first one's having returned
C18_Witness ==
  /\ msgCount >= 2
  /\ cmdCalls[2] = 1 /\ cmdReturns[2] = 0
  /\ cmdReturns[1] = 1
  /\ \E t \in CmdThreads : threads[t].pc = "handler" /\ threads[t].msg.id = 2

\* C19: the connection flag never goes back from true to false.
C19_ConnectedMonotone == [][connected => connected']_vars

\* still connected after a later connect failed, a listener's receive
\* failed and a send raised
C19_Witness ==
  /\ connected
  /\ connectResult \in {"provfail", "hubfail"}
  /\ \E t \in Threads : threads[t].pc = "dead"
  /\ lastSend # NoSend
  /\ Occurrences(lastSend.trace, "raise") = 1

\* the call handed its payload to the send primitive
HandsPayload(call) == Occurrences(call.trace, PrimitiveOf(call.op)) = 1

\* C20: a send call hands a payload to a send primitive, or invokes its
\* callback, only when isConnected() is true: made before any connect or
\* after a failed connect it sends nothing and invokes no callback.
C20_SendsOnlyWhenConnected ==
  [][(SendStep /\ ~isConnected)
       => /\ ~HandsPayload(lastSend')
          /\ Occurrences(lastSend'.trace, "callback") = 0]_vars

\* What the send methods do guarantee: the payload reaches a send primitive
\* only when the client has a hub client object (a connect call got past
\* registration); without one the call raises, sends nothing and invokes no
\* callback; with one the payload is handed over whatever isConnected()
\* says.
SendsOnlyWithHubClient ==
  [][SendStep
       => IF deviceClient = "unset"
          THEN lastSend'.trace = <<"raise">>
          ELSE HandsPayload(lastSend')]_vars

====
